---- MODULE Spec2Model ----
(***************************************************************************)
(* Model of download_manager.py: the DownloadItem sessions (one widget per *)
(* submitted URL), their download workers (download_file for plain HTTP,   *)
(* download_youtube_video for the yt-dlp subprocess), the Pause / Resume / *)
(* Cancel button handler and the lifecycle messages posted to the app.     *)
(*                                                                         *)
(* Everything runs on one asyncio event loop: a button handler is atomic,  *)
(* a worker is atomic between two of its await points, and a cancellation  *)
(* requested with Worker.cancel() is delivered as CancelledError the next  *)
(* time the cancelled worker is scheduled.  The file system follows POSIX: *)
(* os.remove unlinks a name while a writer may still hold it open.  An     *)
(* exception that reaches the app ends it; the model stops there.          *)
(***************************************************************************)
EXTENDS Integers, Sequences, FiniteSets, TLC

\* ---- bounds ----
MaxSessions == 1       \* sessions submitted (Spec)
MaxSharing == 2        \* sessions submitted when they may share a file (SharedSpec)
MaxInvocations == 2    \* strategy invocations started, over all sessions
ResourceSize == 2      \* bytes of the remote resource, one byte per chunk
MaxTokenLen == 3       \* characters of an enumerated size token

\* The session slots; a specification fills the first MaxSessions or
\* MaxSharing of them.
Sessions == 1..(IF MaxSharing > MaxSessions THEN MaxSharing ELSE MaxSessions)

\* ---- URLs, classification and destination paths (DownloadItem.__init__) ----
\* The plain URLs name the same file on servers that answer differently.
URL_RANGES == "http://ranges.example/a"        \* byte ranges, content-length sent
URL_CHUNKED == "http://chunked.example/a"      \* byte ranges, no content-length
URL_NOCONTENT == "http://nocontent.example/a"  \* answers 204 No Content
URL_MISSING == "http://missing.example/a"      \* answers 404
URL_NOBASE == "http://ranges.example/"         \* the path has no basename
URL_YT == "https://youtube.com/watch"
Urls == {URL_RANGES, URL_CHUNKED, URL_NOCONTENT, URL_MISSING, URL_NOBASE, URL_YT}
NoUrl == "none"

DOWNLOADS_DIR == "downloads"
FilePaths == {"downloads/a"}
NoFile == <<-1>>

\* line 99
is_youtube_dl(u) == u = URL_YT

\* lines 101-107
download_path(u) ==
    IF is_youtube_dl(u) THEN DOWNLOADS_DIR
    ELSE IF u = URL_NOBASE THEN DOWNLOADS_DIR
    ELSE "downloads/a"

IsDirectory(p) == p = DOWNLOADS_DIR

\* ---- the remote resource and the servers' answers ----
Resource == [i \in 1..ResourceSize |-> i]

Tail_from(n) == SubSeq(Resource, n + 1, ResourceSize)

HonorsRanges(u) == u \in {URL_RANGES, URL_CHUNKED, URL_NOBASE}

\* content-length as line 183 reads it: 0 when the header is absent
content_length(u, n) == IF u = URL_CHUNKED THEN 0 ELSE n

\* The answer to GET u with Range: bytes=offset- (offset 0: no Range header).
ServerResponse(u, offset) ==
    IF u = URL_NOCONTENT THEN [status |-> 204, content_length |-> 0, body |-> <<>>]
    ELSE IF u = URL_MISSING THEN [status |-> 404, content_length |-> 0, body |-> <<>>]
    ELSE IF offset = 0
    THEN [status |-> 200, content_length |-> content_length(u, ResourceSize),
          body |-> Resource]
    ELSE IF offset < ResourceSize
    THEN [status |-> 206, content_length |-> content_length(u, ResourceSize - offset),
          body |-> Tail_from(offset)]
    ELSE [status |-> 416, content_length |-> 0, body |-> <<>>]

\* httpx Response.raise_for_status: raises unless the status is 2xx.
raise_for_status(status) == ~(status >= 200 /\ status < 300)

\* download_file line 180: the statuses for which nothing is raised.
StatusProceeds(status) == status \in {200, 206} \/ ~raise_for_status(status)

file_mode_truncating(resume_from) == "wb"

\* download_file line 176
file_mode(resume_from) == IF resume_from > 0 THEN "ab" ELSE "wb"

response_total_of_range(content_len, resume_from) == content_len

\* download_file lines 183-185
response_total(content_len, resume_from) ==
    content_len + (IF resume_from > 0 THEN resume_from ELSE 0)

range_header_absent(resume_from) == 0

\* download_file line 173: the Range header, 0 = no header
range_header(resume_from) == IF resume_from > 0 THEN resume_from ELSE 0

\* ---- yt-dlp progress lines that match progress_re: the percent and the
\* parsed total-size token of each ----
ProgressLines == {[percent |-> 100, total |-> 4], [percent |-> 50, total |-> 2]}

\* a line of the tool's stderr that is no progress line
DIAGNOSTIC == "ERROR: Video unavailable"
UNKNOWN_ERROR == "Unknown yt-dlp error."

\* _parse_yt_dlp_progress line 301
yt_bytes(percent, total) == (percent * total) \div 100

\* ---- parse_size_to_bytes (lines 19-38) ----
\* A size token is a sequence of one-character strings.  float() is modelled
\* on the characters the tokens are made of: digits with at most one point and
\* at least one digit.  Arithmetic is exact, and only tokens whose size fits
\* the model's integers are drawn.
Digits == {"0", "1", "2", "3", "4", "5", "6", "7", "8", "9"}

DigitValue(c) ==
    CASE c = "0" -> 0 [] c = "1" -> 1 [] c = "2" -> 2 [] c = "3" -> 3 [] c = "4" -> 4
      [] c = "5" -> 5 [] c = "6" -> 6 [] c = "7" -> 7 [] c = "8" -> 8 [] c = "9" -> 9

\* str.upper() on one character
upper_char(c) ==
    CASE c = "a" -> "A" [] c = "b" -> "B" [] c = "c" -> "C" [] c = "g" -> "G"
      [] c = "i" -> "I" [] c = "k" -> "K" [] c = "m" -> "M" [] c = "x" -> "X"
      [] OTHER -> c

upper(str) == [j \in 1..Len(str) |-> upper_char(str[j])]

endswith(str, c) == Len(str) > 0 /\ str[Len(str)] = c

\* str[:-1]
drop_last(str) == SubSeq(str, 1, Len(str) - 1)

\* float(str) does not raise ValueError
float_ok(str) ==
    /\ \A j \in 1..Len(str) : str[j] \in Digits \/ str[j] = "."
    /\ Cardinality({j \in 1..Len(str) : str[j] = "."}) <= 1
    /\ \E j \in 1..Len(str) : str[j] \in Digits

\* float(str) as Mantissa / 10^Decimals
RECURSIVE Mantissa(_)
Mantissa(str) ==
    IF str = <<>> THEN 0
    ELSE IF str[Len(str)] = "." THEN Mantissa(drop_last(str))
    ELSE 10 * Mantissa(drop_last(str)) + DigitValue(str[Len(str)])

RECURSIVE Decimals(_)
Decimals(str) ==
    IF str = <<>> THEN 0
    ELSE IF str[Len(str)] = "." THEN 0
    ELSE IF \E j \in 1..Len(str) : str[j] = "." THEN 1 + Decimals(drop_last(str))
    ELSE 0

RECURSIVE Pow10(_)
Pow10(n) == IF n = 0 THEN 1 ELSE 10 * Pow10(n - 1)

KiB == 1024
MiB == 1024 * 1024
GiB == 1024 * 1024 * 1024

\* int(float(str) * factor)
int_float_times(str, factor) == (Mantissa(str) * factor) \div Pow10(Decimals(str))

Returns(n) == [raised |-> "", value |-> n]
Raises(exc) == [raised |-> exc, value |-> 0]
NotCalled == [raised |-> "not called", value |-> 0]

\* lines 29, 31, 33: the conversion is outside any try
scaled(str, factor) ==
    IF float_ok(str) THEN Returns(int_float_times(str, factor)) ELSE Raises("ValueError")

TOKEN_NA == <<"N", "/", "A">>

parse_size_to_bytes(size_str) ==
    IF size_str = <<>> \/ size_str = TOKEN_NA THEN Returns(0)
    ELSE LET up == upper(size_str)
             str == IF endswith(up, "B") THEN drop_last(up) ELSE up
         IN  IF endswith(str, "K") THEN scaled(drop_last(str), KiB)
             ELSE IF endswith(str, "M") THEN scaled(drop_last(str), MiB)
             ELSE IF endswith(str, "G") THEN scaled(drop_last(str), GiB)
             ELSE IF float_ok(str) THEN Returns(int_float_times(str, 1))
             ELSE Returns(0)

\* The tokens parse_size_to_bytes is applied to: every string of at most
\* MaxTokenLen characters of SizeChars, and the tokens named in the text.
SizeChars == {"1", "5", ".", "K", "M", "G", "B", "i", "k", "x"}
TOKEN_12_34MiB == <<"1", "2", ".", "3", "4", "M", "i", "B">>
TOKEN_500 == <<"5", "0", "0">>
TOKEN_abc == <<"a", "b", "c">>
TOKEN_abcM == <<"a", "b", "c", "M">>
TOKEN_KB == <<"K", "B">>
NamedTokens == {<<>>, TOKEN_NA, TOKEN_12_34MiB, TOKEN_500, TOKEN_abc, TOKEN_abcM, TOKEN_KB}

\* The number in front of a unit (K, M, G, also written Ki, Mi, Gi) times the
\* unit stays within GiB.
Representable(token) ==
    LET up == upper(token)
        nob == IF endswith(up, "B") THEN drop_last(up) ELSE up
        str == IF endswith(nob, "I") THEN drop_last(nob) ELSE nob
        num == IF endswith(str, "K") \/ endswith(str, "M") \/ endswith(str, "G")
               THEN drop_last(str) ELSE str
        factor == IF endswith(str, "K") THEN KiB
                  ELSE IF endswith(str, "M") THEN MiB
                  ELSE IF endswith(str, "G") THEN GiB ELSE 1
    IN  float_ok(num) => Mantissa(num) <= GiB \div factor

Tokens ==
    NamedTokens \cup
    {token \in UNION {[1..n -> SizeChars] : n \in 0..MaxTokenLen} : Representable(token)}

VARIABLES
    url,               \* session -> its URL (NoUrl before it is submitted)
    mounted,           \* the registry: sessions whose DownloadItem is mounted
    is_paused,
    bytes_downloaded,
    total_size,
    progress_display,  \* what watch_bytes_downloaded last rendered
    pause_disabled,    \* #pause-resume .disabled
    workers,           \* session -> its unfinished workers, the last is download_worker
    started,           \* session -> number of strategy invocations started
    events,            \* session -> lifecycle messages posted, in order
    range_sent,        \* session -> offset of the Range header last sent, 0 = none
    fs,                \* file path -> content, or NoFile
    crashed,           \* an exception reached the app
    error,             \* session -> the text of its last DownloadFailed message
    size_str,          \* the token handed to parse_size_to_bytes
    size_result        \* what the call returned or raised

size_vars == <<size_str, size_result>>

download_vars == <<url, mounted, is_paused, bytes_downloaded, total_size, progress_display,
                   pause_disabled, workers, started, events, range_sent, fs, crashed,
                   error>>

vars == <<download_vars, size_vars>>

\* ---- workers ----
NewWorker(resume_from) ==
    [pc |-> "new", cancelled |-> FALSE, resume_from |-> resume_from,
     status |-> 0, body |-> <<>>, handle |-> "none", proc |-> "none", updated |-> FALSE,
     diag |-> ""]

DoneWorker ==
    [pc |-> "done", cancelled |-> FALSE, resume_from |-> 0,
     status |-> 0, body |-> <<>>, handle |-> "none", proc |-> "none", updated |-> FALSE,
     diag |-> ""]

RemoveAt(seq, i) == SubSeq(seq, 1, i - 1) \o SubSeq(seq, i + 1, Len(seq))

\* The worker list after worker i has returned.
Returned(ws, i) == IF i = Len(ws) THEN [ws EXCEPT ![i] = DoneWorker] ELSE RemoveAt(ws, i)

\* Where a worker stands once cancellation is requested at its await point.
\* A task that has not run yet never runs.  A worker awaiting the response or
\* the close of the response has only the context managers left to leave
\* ("cleanup"); one reading or awaiting the subprocess will terminate it
\* ("interrupted").  A worker holding the file open, or still launching the
\* subprocess, keeps its place until CancelledError is delivered.
cancelled_pc(pc) ==
    IF pc \in {"request", "closing"} THEN "cleanup"
    ELSE IF pc \in {"reading", "waiting"} THEN "interrupted"
    ELSE pc

\* Worker.cancel(): a no-op on a finished worker.  What the worker would have
\* done next no longer matters once it is cancelled.
cancel(w) ==
    IF w.pc \in {"done", "new"} THEN DoneWorker
    ELSE [w EXCEPT !.cancelled = TRUE, !.resume_from = 0, !.status = 0,
                   !.body = <<>>, !.updated = FALSE, !.diag = "",
                   !.pc = cancelled_pc(@)]

CancelLast(ws) == IF ws = <<>> THEN ws ELSE [ws EXCEPT ![Len(ws)] = cancel(@)]

\* os.remove on a file: writers that hold it open keep an unlinked file.
Unlink(ws, s, p) ==
    [i \in 1..Len(ws) |->
        IF download_path(url[s]) = p /\ ws[i].handle = "open"
        THEN [ws[i] EXCEPT !.handle = "unlinked"] ELSE ws[i]]

Running(w) == w.pc \notin {"new", "done"}

ActiveWorkers(s) == {i \in 1..Len(workers[s]) : Running(workers[s][i])}

\* ---- reactive attributes and their watchers ----
\* watch_bytes_downloaded runs when the value changes and reads total_size.
watch_bytes_downloaded(s, new_value) ==
    IF new_value # bytes_downloaded[s]
    THEN [progress_display EXCEPT ![s] = [done |-> new_value, total |-> total_size[s]]]
    ELSE progress_display

SetBytes(s, v) ==
    /\ bytes_downloaded' = [bytes_downloaded EXCEPT ![s] = v]
    /\ progress_display' = watch_bytes_downloaded(s, v)

InitDownloads ==
    /\ url = [s \in Sessions |-> NoUrl]
    /\ mounted = {}
    /\ is_paused = [s \in Sessions |-> FALSE]
    /\ bytes_downloaded = [s \in Sessions |-> 0]
    /\ total_size = [s \in Sessions |-> 0]
    /\ progress_display = [s \in Sessions |-> [done |-> 0, total |-> 0]]
    /\ pause_disabled = [s \in Sessions |-> FALSE]
    /\ workers = [s \in Sessions |-> <<>>]
    /\ started = [s \in Sessions |-> 0]
    /\ events = [s \in Sessions |-> <<>>]
    /\ range_sent = [s \in Sessions |-> 0]
    /\ fs = [p \in FilePaths |-> NoFile]
    /\ crashed = FALSE
    /\ error = [s \in Sessions |-> <<>>]

Init ==
    /\ InitDownloads
    /\ size_str = <<>>
    /\ size_result = NotCalled


\* ---- shared pieces of the handlers and workers ----
post_message(s, ev) == [events EXCEPT ![s] = Append(@, ev)]

RECURSIVE SumTo(_, _)
SumTo(f, n) == IF n = 0 THEN 0 ELSE f[n] + SumTo(f, n - 1)

\* Strategy invocations started so far, over all sessions.
TotalStarted == SumTo(started, Cardinality(Sessions))

\* start_download (lines 123-133)
start_download(s, resume_from) ==
    /\ is_paused' = [is_paused EXCEPT ![s] = FALSE]
    /\ workers' = [workers EXCEPT ![s] =
                     (IF @ # <<>> /\ @[Len(@)].pc = "done" THEN SubSeq(@, 1, Len(@) - 1) ELSE @)
                     \o <<NewWorker(resume_from)>>]
    /\ started' = [started EXCEPT ![s] = @ + 1]

\* DownloadManagerApp.on_input_submitted (lines 349-357) and on_mount (119-121)
on_input_submitted(s, u) ==
    /\ ~crashed
    /\ TotalStarted < MaxInvocations
    /\ url[s] = NoUrl
    /\ \A t \in Sessions : t < s => url[t] # NoUrl
    /\ url' = [url EXCEPT ![s] = u]
    /\ mounted' = mounted \cup {s}
    /\ start_download(s, 0)
    /\ UNCHANGED <<bytes_downloaded, total_size, progress_display, pause_disabled,
                   events, range_sent, fs, crashed>>
    /\ UNCHANGED <<error, size_vars>>

Pressable(s) == ~crashed /\ s \in mounted

\* on_button_pressed, "pause-resume" while not paused (lines 152-156)
on_button_pressed_pause(s) ==
    /\ Pressable(s)
    /\ ~pause_disabled[s]
    /\ ~is_paused[s]
    /\ is_paused' = [is_paused EXCEPT ![s] = TRUE]
    /\ workers' = [workers EXCEPT ![s] = CancelLast(@)]
    /\ UNCHANGED <<url, mounted, bytes_downloaded, total_size, progress_display,
                   pause_disabled, started, events, range_sent, fs, crashed>>
    /\ UNCHANGED <<error, size_vars>>

\* on_button_pressed, "pause-resume" while paused (lines 149-151)
on_button_pressed_resume(s) ==
    /\ Pressable(s)
    /\ ~pause_disabled[s]
    /\ is_paused[s]
    /\ TotalStarted < MaxInvocations
    /\ start_download(s, bytes_downloaded[s])
    /\ UNCHANGED <<url, mounted, bytes_downloaded, total_size, progress_display,
                   pause_disabled, events, range_sent, fs, crashed>>
    /\ UNCHANGED <<error, size_vars>>

\* os.path.exists(self.download_path)
path_exists(p) == IsDirectory(p) \/ fs[p] # NoFile

os_remove_skipped(p) == fs

\* os.remove(self.download_path) on a regular file (line 161)
os_remove(p) == [fs EXCEPT ![p] = NoFile]

remove_skipped(s) == mounted

\* self.remove(): the widget leaves the download container
remove(s) == mounted \ {s}

\* on_button_pressed, "cancel" (lines 157-163)
on_button_pressed_cancel(s) ==
    LET p == download_path(url[s])
        cancelled == [workers EXCEPT ![s] = CancelLast(@)]
    IN  /\ Pressable(s)
        /\ IF path_exists(p) /\ IsDirectory(p)
           THEN \* os.remove raises on a directory: the handler stops there
                /\ crashed' = TRUE
                /\ workers' = cancelled
                /\ UNCHANGED <<mounted, events, fs>>
           ELSE /\ fs' = IF path_exists(p) THEN os_remove(p) ELSE fs
                /\ workers' = IF path_exists(p)
                              THEN [t \in Sessions |-> Unlink(cancelled[t], t, p)]
                              ELSE cancelled
                /\ events' = post_message(s, "Cancelled")
                /\ mounted' = remove(s)
                /\ UNCHANGED crashed
        /\ UNCHANGED <<url, is_paused, bytes_downloaded, total_size, progress_display,
                       pause_disabled, started, range_sent>>
        /\ UNCHANGED <<error, size_vars>>


\* ---- download_file (lines 165-211) ----
IsHttpWorker(s, i) ==
    /\ ~crashed
    /\ url[s] # NoUrl /\ ~is_youtube_dl(url[s])
    /\ i \in 1..Len(workers[s])

\* except Exception (lines 208-211): Failed, and the resume button is disabled
download_failed(s, i, e) ==
    /\ events' = post_message(s, "Failed")
    /\ error' = [error EXCEPT ![s] = <<e>>]
    /\ pause_disabled' = [pause_disabled EXCEPT ![s] = TRUE]
    /\ workers' = [workers EXCEPT ![s] = Returned(@, i)]

\* The worker task is scheduled for the first time (lines 167-179, up to the
\* await of the response).
download_file_begin(s, i) ==
    LET w == workers[s][i] IN
    /\ IsHttpWorker(s, i)
    /\ w.pc = "new"
    /\ SetBytes(s, w.resume_from)
    /\ range_sent' = [range_sent EXCEPT ![s] = range_header(w.resume_from)]
    /\ workers' = [workers EXCEPT ![s][i] = [w EXCEPT !.pc = "request", !.updated = TRUE]]
    /\ UNCHANGED <<url, mounted, is_paused, total_size, pause_disabled, started,
                   events, fs, crashed>>
    /\ UNCHANGED <<error, size_vars>>

open_file_truncating(p, mode) == [fs EXCEPT ![p] = <<>>]

\* open(self.download_path, file_mode) on a regular path (line 187)
open_file(p, mode) ==
    IF mode = "wb" \/ fs[p] = NoFile THEN [fs EXCEPT ![p] = <<>>] ELSE fs

\* The response headers arrive (lines 179-187), or the request fails.
download_file_response(s, i) ==
    LET w == workers[s][i]
        p == download_path(url[s])
    IN
    /\ IsHttpWorker(s, i)
    /\ w.pc = "request"
    /\ \/ \* connection error
          /\ download_failed(s, i, "ConnectError")
          /\ UNCHANGED <<total_size, fs>>
       \/ LET r == ServerResponse(url[s], range_header(w.resume_from)) IN
            /\ IF ~StatusProceeds(r.status)
               THEN /\ download_failed(s, i, "HTTPStatusError")
                    /\ UNCHANGED <<total_size, fs>>
               ELSE /\ total_size' = [total_size EXCEPT ![s] =
                           response_total(r.content_length, w.resume_from)]
                    /\ IF IsDirectory(p)
                       THEN /\ download_failed(s, i, "IsADirectoryError")
                            /\ UNCHANGED fs
                       ELSE /\ fs' = open_file(p, file_mode(w.resume_from))
                            /\ workers' = [workers EXCEPT ![s][i] =
                                  [w EXCEPT !.pc = "streaming", !.status = r.status,
                                            !.body = r.body, !.handle = "open"]]
                            /\ UNCHANGED <<pause_disabled, events, error>>
    /\ UNCHANGED <<url, mounted, is_paused, bytes_downloaded, progress_display,
                   started, range_sent, crashed>>
    /\ UNCHANGED size_vars

\* f.write(chunk) (line 189): the bytes reach the file the handle refers to
write_chunk(s, w, chunk) ==
    IF w.handle = "open"
    THEN [fs EXCEPT ![download_path(url[s])] = @ \o chunk]
    ELSE fs

\* One turn of the async for (lines 188-190): a chunk, the end of the body, a
\* failure of the stream, or CancelledError, which closes the file.
download_file_chunk(s, i) ==
    LET w == workers[s][i] IN
    /\ IsHttpWorker(s, i)
    /\ w.pc = "streaming"
    /\ IF w.cancelled
       THEN /\ workers' = [workers EXCEPT ![s][i] =
                             [w EXCEPT !.pc = "cleanup", !.handle = "none"]]
            /\ UNCHANGED <<bytes_downloaded, progress_display, pause_disabled, events, fs,
                           error>>
       ELSE \/ /\ w.body # <<>>
               /\ fs' = write_chunk(s, w, <<Head(w.body)>>)
               /\ SetBytes(s, bytes_downloaded[s] + 1)
               /\ workers' = [workers EXCEPT ![s][i] = [w EXCEPT !.body = Tail(w.body)]]
               /\ UNCHANGED <<pause_disabled, events, error>>
            \/ /\ w.body # <<>>
               /\ download_failed(s, i, "ReadError")
               /\ UNCHANGED <<bytes_downloaded, progress_display, fs>>
            \/ /\ w.body = <<>>
               /\ workers' = [workers EXCEPT ![s][i] =
                                [w EXCEPT !.pc = "closing", !.handle = "none"]]
               /\ UNCHANGED <<bytes_downloaded, progress_display, pause_disabled, events, fs,
                              error>>
    /\ UNCHANGED <<url, mounted, is_paused, total_size, started, range_sent, crashed>>
    /\ UNCHANGED size_vars

\* The response and the client are closed; Success and remove (lines 199-202).
download_file_success(s, i) ==
    LET w == workers[s][i] IN
    /\ IsHttpWorker(s, i)
    /\ w.pc = "closing"
    /\ events' = post_message(s, "Success")
    /\ mounted' = remove(s)
    /\ workers' = [workers EXCEPT ![s] = Returned(@, i)]
    /\ UNCHANGED <<url, is_paused, bytes_downloaded, total_size, progress_display,
                   pause_disabled, started, range_sent, fs, crashed>>
    /\ UNCHANGED <<error, size_vars>>

download_file_cancelled_as_failure(s, i) ==
    /\ IsHttpWorker(s, i)
    /\ workers[s][i].pc = "cleanup"
    /\ download_failed(s, i, "CancelledError")
    /\ UNCHANGED <<url, mounted, is_paused, bytes_downloaded, total_size, progress_display,
                   started, range_sent, fs, crashed, size_vars>>

\* except asyncio.CancelledError: pass (lines 205-207), after the context
\* managers of lines 178-179 have been left.
download_file_cancelled(s, i) ==
    LET w == workers[s][i] IN
    /\ IsHttpWorker(s, i)
    /\ w.pc = "cleanup"
    /\ workers' = [workers EXCEPT ![s] = Returned(@, i)]
    /\ UNCHANGED <<url, mounted, is_paused, bytes_downloaded, total_size, progress_display,
                   pause_disabled, started, events, range_sent, fs, crashed>>
    /\ UNCHANGED <<error, size_vars>>

\* ---- download_youtube_video (lines 214-283) ----
IsYtWorker(s, i) ==
    /\ ~crashed
    /\ url[s] # NoUrl /\ is_youtube_dl(url[s])
    /\ i \in 1..Len(workers[s])

\* A Failed message of this strategy: nothing else is touched (lines 222, 274, 283)
yt_failed(s, i, e) ==
    /\ events' = post_message(s, "Failed")
    /\ error' = [error EXCEPT ![s] = e]
    /\ workers' = [workers EXCEPT ![s] = Returned(@, i)]

\* First step: shutil.which (lines 216-223), then the await of
\* create_subprocess_exec (line 246).
download_youtube_video_begin(s, i) ==
    LET w == workers[s][i] IN
    /\ IsYtWorker(s, i)
    /\ w.pc = "new"
    /\ \/ yt_failed(s, i, <<"yt-dlp not found.">>)
       \/ /\ workers' = [workers EXCEPT ![s][i] = [w EXCEPT !.pc = "launching"]]
          /\ UNCHANGED <<events, error>>
    /\ UNCHANGED <<url, mounted, is_paused, bytes_downloaded, total_size, progress_display,
                   pause_disabled, started, range_sent, fs, crashed>>
    /\ UNCHANGED size_vars

\* create_subprocess_exec returns (line 246).  A CancelledError here reaches
\* line 278 with `process` unbound: the resulting error leaves the worker.
download_youtube_video_launched(s, i) ==
    LET w == workers[s][i] IN
    /\ IsYtWorker(s, i)
    /\ w.pc = "launching"
    /\ IF w.cancelled
       THEN /\ crashed' = TRUE
            /\ workers' = [workers EXCEPT ![s] = Returned(@, i)]
            /\ UNCHANGED <<events, error>>
       ELSE /\ \/ yt_failed(s, i, <<"yt-dlp execution error: ", "OSError">>)
               \/ /\ workers' = [workers EXCEPT ![s][i] =
                                   [w EXCEPT !.pc = "reading", !.proc = "running"]]
                  /\ UNCHANGED <<events, error>>
            /\ UNCHANGED crashed
    /\ UNCHANGED <<url, mounted, is_paused, bytes_downloaded, total_size, progress_display,
                   pause_disabled, started, range_sent, fs>>
    /\ UNCHANGED size_vars

\* _parse_yt_dlp_progress (lines 290-307): a matching progress line, a line
\* that does not match progress_re and is dropped (lines 296-297), or the end
\* of both streams.
parse_yt_dlp_progress(s, i) ==
    LET w == workers[s][i] IN
    /\ IsYtWorker(s, i)
    /\ w.pc = "reading"
    /\ \/ \E line \in ProgressLines :
            /\ SetBytes(s, yt_bytes(line.percent, line.total))
            /\ total_size' = [total_size EXCEPT ![s] = line.total]
            /\ workers' = [workers EXCEPT ![s][i] = [w EXCEPT !.updated = TRUE]]
       \/ /\ w.diag = ""
          /\ workers' = [workers EXCEPT ![s][i] = [w EXCEPT !.diag = DIAGNOSTIC]]
          /\ UNCHANGED <<bytes_downloaded, total_size, progress_display>>
       \/ /\ workers' = [workers EXCEPT ![s][i] = [w EXCEPT !.pc = "waiting"]]
          /\ UNCHANGED <<bytes_downloaded, total_size, progress_display>>
    /\ UNCHANGED <<url, mounted, is_paused, pause_disabled, started, events,
                   range_sent, fs, crashed>>
    /\ UNCHANGED <<error, size_vars>>

\* process.stderr.read() at line 272.  Line 265 is reached only after
\* _parse_yt_dlp_progress has read the stream to its end (lines 291-293), so
\* nothing of what the tool wrote is left to read.
remaining_stderr(w) == ""

\* line 273
error_message(remaining) == IF remaining # "" THEN remaining ELSE UNKNOWN_ERROR

\* process.wait() returns (lines 265-274)
download_youtube_video_exit(s, i) ==
    LET w == workers[s][i] IN
    /\ IsYtWorker(s, i)
    /\ w.pc = "waiting"
    /\ \/ /\ events' = post_message(s, "Success")      \* returncode == 0
          /\ mounted' = remove(s)
          /\ workers' = [workers EXCEPT ![s] = Returned(@, i)]
          /\ UNCHANGED error
       \/ /\ yt_failed(s, i, <<"yt-dlp failed: ", error_message(remaining_stderr(w))>>)
          /\ UNCHANGED mounted
    /\ UNCHANGED <<url, is_paused, bytes_downloaded, total_size, progress_display,
                   pause_disabled, started, range_sent, fs, crashed>>
    /\ UNCHANGED size_vars

\* except asyncio.CancelledError (lines 276-279): the subprocess is sent
\* terminate and its exit is awaited.
download_youtube_video_interrupted(s, i) ==
    LET w == workers[s][i] IN
    /\ IsYtWorker(s, i)
    /\ w.pc = "interrupted"
    /\ workers' = [workers EXCEPT ![s][i] = [w EXCEPT !.pc = "terminating"]]
    /\ UNCHANGED <<url, mounted, is_paused, bytes_downloaded, total_size, progress_display,
                   pause_disabled, started, events, range_sent, fs, crashed>>
    /\ UNCHANGED <<error, size_vars>>

\* The terminated subprocess has exited (lines 280-281)
download_youtube_video_cancelled(s, i) ==
    LET w == workers[s][i] IN
    /\ IsYtWorker(s, i)
    /\ w.pc = "terminating"
    /\ workers' = [workers EXCEPT ![s] = Returned(@, i)]
    /\ UNCHANGED <<url, mounted, is_paused, bytes_downloaded, total_size, progress_display,
                   pause_disabled, started, events, range_sent, fs, crashed>>
    /\ UNCHANGED <<error, size_vars>>

\* ---- the system ----
WorkerIds == 1..MaxInvocations

\* Every step but the submission of a URL.
Steps ==
    \/ \E s \in Sessions : on_button_pressed_pause(s)
    \/ \E s \in Sessions : on_button_pressed_resume(s)
    \/ \E s \in Sessions : on_button_pressed_cancel(s)
    \/ \E s \in Sessions, i \in WorkerIds : download_file_begin(s, i)
    \/ \E s \in Sessions, i \in WorkerIds : download_file_response(s, i)
    \/ \E s \in Sessions, i \in WorkerIds : download_file_chunk(s, i)
    \/ \E s \in Sessions, i \in WorkerIds : download_file_success(s, i)
    \/ \E s \in Sessions, i \in WorkerIds : download_file_cancelled(s, i)
    \/ \E s \in Sessions, i \in WorkerIds : download_youtube_video_begin(s, i)
    \/ \E s \in Sessions, i \in WorkerIds : download_youtube_video_launched(s, i)
    \/ \E s \in Sessions, i \in WorkerIds : parse_yt_dlp_progress(s, i)
    \/ \E s \in Sessions, i \in WorkerIds : download_youtube_video_exit(s, i)
    \/ \E s \in Sessions, i \in WorkerIds : download_youtube_video_interrupted(s, i)
    \/ \E s \in Sessions, i \in WorkerIds : download_youtube_video_cancelled(s, i)

Next ==
    \/ \E s \in 1..MaxSessions, u \in Urls : on_input_submitted(s, u)
    \/ Steps

Spec == Init /\ [][Next]_vars

\* ---- several sessions, whose URLs may name the same destination file ----
SharedNext ==
    \/ \E s \in 1..MaxSharing, u \in Urls : on_input_submitted(s, u)
    \/ Steps

SharedSpec == Init /\ [][SharedNext]_vars

\* ---- parse_size_to_bytes on its own: one call on a token ----
SizeInit ==
    /\ InitDownloads
    /\ size_str \in Tokens
    /\ size_result = NotCalled

call_parse_size_to_bytes ==
    /\ size_result = NotCalled
    /\ size_result' = parse_size_to_bytes(size_str)
    /\ UNCHANGED <<size_str, download_vars>>

SizeNext == call_parse_size_to_bytes

SizeSpec == SizeInit /\ [][SizeNext]_vars


\* ======================= properties =======================

IsHttp(s) == url[s] # NoUrl /\ ~is_youtube_dl(url[s])
IsYt(s) == url[s] # NoUrl /\ is_youtube_dl(url[s])

\* Downloading or Paused: mounted and no lifecycle message posted yet.
NonTerminal(s) == s \in mounted /\ events[s] = <<>>

Emitted(s, ev) == \E k \in 1..Len(events[s]) : events[s][k] = ev

\* A step of one of the session's workers.
WorkerStep(s) ==
    \E i \in WorkerIds :
        \/ download_file_begin(s, i)
        \/ download_file_response(s, i)
        \/ download_file_chunk(s, i)
        \/ download_file_success(s, i)
        \/ download_file_cancelled(s, i)
        \/ download_youtube_video_begin(s, i)
        \/ download_youtube_video_launched(s, i)
        \/ parse_yt_dlp_progress(s, i)
        \/ download_youtube_video_exit(s, i)
        \/ download_youtube_video_interrupted(s, i)
        \/ download_youtube_video_cancelled(s, i)

\* No file is stored under the session's destination path.
NoDestinationFile(s, files) ==
    IsDirectory(download_path(url[s])) \/ files[download_path(url[s])] = NoFile

\* C1: at most one strategy invocation of a session is running at any time,
\* i.e. a resumed invocation never runs while a cancelled one has not returned.
C1_OneActiveInvocation ==
    \A s \in Sessions : Cardinality(ActiveWorkers(s)) <= 1

\* C2: Cancel pressed on a session that is Downloading or Paused completes:
\* the worker is asked to cancel, exactly one Cancelled message is posted and
\* the session leaves the registry.
C2_CancelCompletes ==
    [][\A s \in Sessions :
          (NonTerminal(s) /\ on_button_pressed_cancel(s)) =>
              /\ events'[s] = <<"Cancelled">>
              /\ s \notin mounted'
              /\ \A i \in 1..Len(workers'[s]) :
                    workers'[s][i].pc # "done" => workers'[s][i].cancelled]_vars

\* C3: for an HTTP session, Cancel in Downloading or Paused leaves no
\* destination file, and no later step of the session's cancelled workers
\* changes the file system.
C3_CancelDeletesFile ==
    [][\A s \in Sessions :
          IsHttp(s) =>
              /\ (NonTerminal(s) /\ events'[s] # events[s] /\ on_button_pressed_cancel(s))
                     => NoDestinationFile(s, fs')
              /\ (events[s] = <<"Cancelled">> /\ fs' # fs) => ~WorkerStep(s)]_vars

\* C3 witness: an HTTP session was cancelled while its worker held the file
\* open; the file is gone and the cancelled worker has not yet returned.
C3_Witness ==
    \E s \in Sessions :
        /\ IsHttp(s) /\ events[s] = <<"Cancelled">>
        /\ NoDestinationFile(s, fs)
        /\ \E i \in 1..Len(workers[s]) : workers[s][i].handle = "unlinked"

\* C4: once a lifecycle message has been posted for a session, no further
\* strategy invocation is started for it and no further message is posted.
C4_TerminalIsFinal ==
    [][\A s \in Sessions :
          events[s] # <<>> => (started'[s] = started[s] /\ events'[s] = events[s])]_vars

\* C5 as claimed: a session that reached Succeeded, Failed or Cancelled is not
\* in the registry.
C5_TerminalNotMounted ==
    \A s \in Sessions : events[s] # <<>> => s \notin mounted

\* C5 amended: a session for which Success or Cancelled was posted is not in
\* the registry (a Failed session stays mounted until it is cancelled).
C5_SucceededOrCancelledNotMounted ==
    \A s \in Sessions :
        (Emitted(s, "Success") \/ Emitted(s, "Cancelled")) => s \notin mounted

\* C5 witness: a succeeded session has left the registry.
C5_Witness ==
    \E s \in Sessions : Emitted(s, "Success") /\ s \notin mounted


\* No other session was ever submitted for the same destination path.
Isolated(s) ==
    \A t \in Sessions \ {s} :
        url[t] = NoUrl \/ download_path(url[t]) # download_path(url[s])

\* C6: an HTTP transfer served by a range-honoring server that ends in
\* Success, after any Pause / Resume cycles, leaves the same file as an
\* uninterrupted download: the resource itself.
C6_ResumeYieldsSameFile ==
    \A s \in Sessions :
        (IsHttp(s) /\ HonorsRanges(url[s]) /\ Emitted(s, "Success") /\ Isolated(s))
            => fs[download_path(url[s])] = Resource

\* C6 witness: a transfer paused at an offset > 0 and resumed with a Range
\* request has succeeded.
C6_Witness ==
    \E s \in Sessions :
        /\ IsHttp(s) /\ HonorsRanges(url[s]) /\ Emitted(s, "Success") /\ Isolated(s)
        /\ started[s] >= 2 /\ range_sent[s] > 0
        /\ fs[download_path(url[s])] = Resource

\* C7: a worker streams a body into the destination file only after a 200 or
\* 206 answer; any other status ends the attempt without opening the file.
C7_StreamsOnly200Or206 ==
    \A s \in Sessions : \A i \in 1..Len(workers[s]) :
        (workers[s][i].pc = "streaming" /\ ~workers[s][i].cancelled)
            => workers[s][i].status \in {200, 206}

\* C8: whenever the total is known, bytes_downloaded does not exceed it, both
\* in the attributes and in what watch_bytes_downloaded read and rendered.
C8_BytesWithinTotal ==
    \A s \in Sessions :
        /\ total_size[s] > 0 => bytes_downloaded[s] <= total_size[s]
        /\ progress_display[s].total > 0 =>
               progress_display[s].done <= progress_display[s].total

\* C9: once total_size is non-zero no assignment makes it smaller.
C9_TotalNeverShrinks ==
    [][\A s \in Sessions :
          total_size[s] > 0 => total_size'[s] >= total_size[s]]_vars

\* C10: while an invocation that has already set bytes_downloaded is running,
\* bytes_downloaded does not decrease.
C10_BytesMonotonic ==
    [][\A s \in Sessions :
          (\E i \in 1..Len(workers[s]) : workers[s][i].updated)
              => bytes_downloaded'[s] >= bytes_downloaded[s]]_vars

\* The text is part of the message.
Contains(message, text) == \E k \in 1..Len(message) : message[k] = text

\* C13: when the tool exits with a nonzero code after writing diagnostic text
\* on its stderr, the Failure message contains that text; the generic message
\* is used only when the tool wrote none.
C13_FailureCarriesDiagnostic ==
    [][\A s \in Sessions : \A i \in 1..Len(workers[s]) :
          (/\ IsYt(s) /\ workers[s][i].pc = "waiting"
           /\ events'[s] = Append(events[s], "Failed"))
          => IF workers[s][i].diag # ""
             THEN Contains(error'[s], workers[s][i].diag)
             ELSE Contains(error'[s], UNKNOWN_ERROR)]_vars

\* C14: no exception leaves a strategy invocation: no step of a worker ends
\* with an exception reaching the app.
C14_NoExceptionEscapes ==
    [][(\E s \in Sessions : WorkerStep(s)) => crashed' = crashed]_vars

\* C15: when Pause or Cancel returns for an external-process session, none of
\* the session's subprocesses is running any more.
C15_NoSubprocessAfterCancel ==
    [][\A s \in Sessions :
          (IsYt(s) /\ (on_button_pressed_pause(s) \/ on_button_pressed_cancel(s)))
              => \A i \in 1..Len(workers'[s]) : workers'[s][i].proc # "running"]_vars

\* C16: a Failed message is posted only by a step of a worker that no Pause
\* or Cancel has asked to stop; an interrupted worker posts none.
C16_CancellationIsNotFailure ==
    [][\A s \in Sessions :
          events'[s] = Append(events[s], "Failed")
              => \E i \in 1..Len(workers[s]) :
                    /\ ~workers[s][i].cancelled
                    /\ workers'[s] = Returned(workers[s], i)]_vars

\* C16 witness: a worker interrupted by Pause while it was streaming has
\* returned, and the session has no lifecycle message.
C16_Witness ==
    \E s \in Sessions :
        /\ s \in mounted /\ is_paused[s] /\ bytes_downloaded[s] > 0
        /\ events[s] = <<>>
        /\ \A i \in 1..Len(workers[s]) : workers[s][i].pc = "done"

\* Every answer of the server carries a content-length equal to its body.
SendsContentLength(u) == \A n \in 0..ResourceSize : content_length(u, n) = n

\* C17: an HTTP transfer whose responses carry exactly content-length bytes
\* and that posts Success ends with bytes_downloaded = total_size whenever
\* total_size > 0, however often it was paused and resumed.
C17_SuccessMeansComplete ==
    \A s \in Sessions :
        (IsHttp(s) /\ SendsContentLength(url[s]) /\ Emitted(s, "Success")
         /\ total_size[s] > 0)
            => bytes_downloaded[s] = total_size[s]

\* C17 witness: a transfer resumed at an offset > 0 has succeeded with the
\* whole resource counted.
C17_Witness ==
    \E s \in Sessions :
        /\ IsHttp(s) /\ SendsContentLength(url[s]) /\ Emitted(s, "Success")
        /\ range_sent[s] > 0
        /\ total_size[s] = ResourceSize /\ bytes_downloaded[s] = ResourceSize

\* C18: a request carries Range: bytes=N- exactly when its resume offset N is
\* > 0; N is bytes_downloaded as the preceding Pause left it; the file is
\* opened for append when N > 0 and created or truncated otherwise; and at a
\* resume with N > 0 the session's destination file is N bytes long.
C18_RangeIffResuming ==
    [][\A s \in Sessions :
          (IsHttp(s) /\ Isolated(s)) =>
              LET p == download_path(url[s]) IN
              /\ is_paused[s] => bytes_downloaded'[s] = bytes_downloaded[s]
              /\ on_button_pressed_resume(s) =>
                    LET w == workers'[s][Len(workers'[s])] IN
                    /\ w.resume_from = bytes_downloaded[s]
                    /\ w.resume_from > 0 => Len(fs[p]) = w.resume_from
              /\ \A i \in 1..Len(workers[s]) :
                    /\ download_file_begin(s, i) =>
                          range_sent'[s] = workers[s][i].resume_from
                    /\ (events'[s] = events[s] /\ download_file_response(s, i)) =>
                          IF workers[s][i].resume_from > 0
                          THEN /\ Len(fs[p]) = workers[s][i].resume_from
                               /\ fs'[p] = fs[p]
                          ELSE fs'[p] = <<>>]_vars

\* C18 witness: a resumed worker has sent its Range request and opened, for
\* append, a file that holds exactly the bytes before its offset.
C18_Witness ==
    \E s \in Sessions : \E i \in 1..Len(workers[s]) :
        LET w == workers[s][i] IN
        /\ IsHttp(s) /\ Isolated(s)
        /\ w.pc = "streaming" /\ ~w.cancelled /\ w.handle = "open"
        /\ w.resume_from > 0 /\ range_sent[s] = w.resume_from
        /\ Len(fs[download_path(url[s])]) = w.resume_from

\* The first sequence is an initial part of the second.
IsPrefix(a, b) == Len(a) <= Len(b) /\ SubSeq(b, 1, Len(a)) = a

\* C19: no step other than the session's own Cancel removes the destination
\* file or any byte the session has written to it: Pause leaves the content
\* as it is, and a Resume only ever appends.
C19_OnlyCancelDeletes ==
    [][\A s \in Sessions :
          (IsHttp(s) /\ Isolated(s) /\ ~IsDirectory(download_path(url[s]))) =>
              LET p == download_path(url[s]) IN
              /\ on_button_pressed_pause(s) => fs'[p] = fs[p]
              /\ (fs[p] # NoFile /\ ~on_button_pressed_cancel(s)) =>
                    (fs'[p] # NoFile /\ IsPrefix(fs[p], fs'[p]))]_vars

\* C19 witness: a resumed transfer has appended to the bytes written before
\* the pause.
C19_Witness ==
    \E s \in Sessions : \E i \in 1..Len(workers[s]) :
        LET w == workers[s][i] IN
        /\ IsHttp(s) /\ Isolated(s) /\ ~IsDirectory(download_path(url[s]))
        /\ w.pc = "streaming" /\ w.handle = "open" /\ w.resume_from > 0
        /\ Len(fs[download_path(url[s])]) > w.resume_from

\* Worker i of session s holds its destination file open for writing and has
\* not been asked to stop.
Writing(s, i) ==
    /\ i \in 1..Len(workers[s])
    /\ workers[s][i].handle # "none" /\ ~workers[s][i].cancelled

\* C20: no two running invocations, of one session or of two, hold the same
\* destination path open for writing.
C20_SingleWriter ==
    \A s, t \in Sessions : \A i, j \in WorkerIds :
        (/\ <<s, i>> # <<t, j>>
         /\ Writing(s, i) /\ Writing(t, j))
            => download_path(url[s]) # download_path(url[t])

\* ---- parse_size_to_bytes ----
\* The token has the form <number><unit>[B], the unit being empty, K, M or G
\* in either case, or the binary style Ki, Mi, Gi followed by B.
SizeFormParts(token) ==
    LET up == upper(token)
        nob == IF endswith(up, "B") THEN drop_last(up) ELSE up
        binary == endswith(up, "B") /\ endswith(nob, "I")
        str == IF binary THEN drop_last(nob) ELSE nob
        unit == IF endswith(str, "K") \/ endswith(str, "M") \/ endswith(str, "G")
                THEN str[Len(str)] ELSE ""
    IN  [binary |-> binary, unit |-> unit,
         number |-> IF unit = "" THEN str ELSE drop_last(str)]

SizeForm(token) ==
    LET parts == SizeFormParts(token) IN
    /\ float_ok(parts.number)
    /\ parts.binary => parts.unit # ""

\* The number times 1024^k, truncated.
ClaimedSize(token) ==
    LET parts == SizeFormParts(token)
        factor == CASE parts.unit = "K" -> KiB [] parts.unit = "M" -> MiB
                    [] parts.unit = "G" -> GiB [] OTHER -> 1
    IN  (Mantissa(parts.number) * factor) \div Pow10(Decimals(parts.number))

\* C11: parse_size_to_bytes returns number * 1024^k truncated for a token
\* <number><unit>[B], binary-style tokens such as 12.34MiB included; 0 for
\* "N/A" and for the empty token; 500 for "500".
C11_ParsesSizes ==
    size_result # NotCalled =>
        /\ size_str \in {<<>>, TOKEN_NA} => size_result = Returns(0)
        /\ size_str = TOKEN_500 => size_result = Returns(500)
        /\ SizeForm(size_str) => size_result = Returns(ClaimedSize(size_str))

\* C12: parse_size_to_bytes never raises, and returns 0 for a token that has
\* no digit to parse.
C12_NeverRaises ==
    size_result # NotCalled =>
        /\ size_result.raised = ""
        /\ (\A j \in 1..Len(size_str) : size_str[j] \notin Digits) => size_result.value = 0

====
